---- MODULE Spec2Model ----
(***************************************************************************)
(* A model of SQLiteRunner (src/archive/sqlite_runner.py): the             *)
(* differential runner that snapshots a database file, runs a reference    *)
(* and several target sqlite executables on one statement, classifies each *)
(* target against the reference and accumulates per-target statistics.     *)
(*                                                                         *)
(* Texts (stdout, stderr) are sequences of one-character strings.  The     *)
(* Python value None of a text field is the one-element sequence NoneText. *)
(***************************************************************************)
EXTENDS Integers, Sequences, FiniteSets, TLC

(***************************************************************************)
(* Text helpers: what str.strip, str.split, str.join and float() do on the *)
(* alphabet the model draws program output from.  The alphabet has no      *)
(* exponent letter, underscore, or the letters of "inf"/"nan", so a field  *)
(* parses as a float exactly when it is an optionally signed run of digits *)
(* with at most one decimal point and at least one digit.                  *)
(***************************************************************************)
Digits == {"0", "1", "2", "3", "4", "5", "6", "7", "8", "9"}

Whitespace == {" ", "\n", "\t"}

NoneText == <<"None">>

RECURSIVE LStrip(_)
LStrip(s) ==
    IF s # <<>> /\ Head(s) \in Whitespace THEN LStrip(Tail(s)) ELSE s

RECURSIVE RStrip(_)
RStrip(s) ==
    IF s # <<>> /\ s[Len(s)] \in Whitespace
    THEN RStrip(SubSeq(s, 1, Len(s) - 1))
    ELSE s

\* str.strip()
Strip(s) == RStrip(LStrip(s))

\* str.split(d): always at least one piece; "" gives [""]
RECURSIVE Split(_, _)
Split(s, d) ==
    IF \A k \in 1..Len(s) : s[k] # d
    THEN <<s>>
    ELSE LET k == CHOOSE j \in 1..Len(s) :
                      s[j] = d /\ \A h \in 1..(j - 1) : s[h] # d
         IN  <<SubSeq(s, 1, k - 1)>> \o Split(SubSeq(s, k + 1, Len(s)), d)

\* d.join(parts)
RECURSIVE Join(_, _)
Join(parts, d) ==
    IF parts = <<>> THEN <<>>
    ELSE IF Len(parts) = 1 THEN parts[1]
    ELSE parts[1] \o <<d>> \o Join(Tail(parts), d)

Count(s, c) == Cardinality({k \in 1..Len(s) : s[k] = c})

Unsigned(part) ==
    IF part # <<>> /\ Head(part) \in {"+", "-"} THEN Tail(part) ELSE part

\* float(part) does not raise ValueError
IsFloat(part) ==
    LET body == Unsigned(part)
    IN  /\ \A k \in 1..Len(body) : body[k] \in Digits \cup {"."}
        /\ Count(body, ".") <= 1
        /\ \E k \in 1..Len(body) : body[k] \in Digits

\* the number of fractional digits of f"{float_val:.10f}"
Precision == 10

DigitVal(c) ==
    CASE c = "0" -> 0 [] c = "1" -> 1 [] c = "2" -> 2 [] c = "3" -> 3
      [] c = "4" -> 4 [] c = "5" -> 5 [] c = "6" -> 6 [] c = "7" -> 7
      [] c = "8" -> 8 [] c = "9" -> 9

DigitChar(n) ==
    CASE n = 0 -> "0" [] n = 1 -> "1" [] n = 2 -> "2" [] n = 3 -> "3"
      [] n = 4 -> "4" [] n = 5 -> "5" [] n = 6 -> "6" [] n = 7 -> "7"
      [] n = 8 -> "8" [] n = 9 -> "9"

RECURSIVE StripZeros(_)
StripZeros(ds) ==
    IF Len(ds) > 1 /\ Head(ds) = "0" THEN StripZeros(Tail(ds)) ELSE ds

\* a run of decimal digits plus one, with carry
RECURSIVE Increment(_)
Increment(ds) ==
    IF ds = <<>> THEN <<"1">>
    ELSE LET last == ds[Len(ds)]
             init == SubSeq(ds, 1, Len(ds) - 1)
         IN  IF last = "9" THEN Increment(init) \o <<"0">>
             ELSE init \o <<DigitChar(DigitVal(last) + 1)>>

Zeros(n) == [k \in 1..n |-> "0"]

\* a formatting that appends Precision zeros to the digits given instead of
\* rounding to Precision fractional digits
FormatFloatPadded(part) ==
    LET body   == Unsigned(part)
        neg    == part # <<>> /\ Head(part) = "-"
        pieces == Split(body, ".")
        ip     == IF pieces[1] = <<>> THEN <<"0">> ELSE pieces[1]
        fp     == IF Len(pieces) > 1 THEN pieces[2] ELSE <<>>
    IN  (IF neg THEN <<"-">> ELSE <<>>) \o StripZeros(ip) \o <<".">> \o fp
            \o Zeros(Precision)

\* f"{float(part):.10f}" for a part that parses as a float: the value rounded
\* to Precision fractional digits (a tie goes to the even digit, as for a
\* value the binary format holds exactly).
FormatFloat(part) ==
    LET body  == Unsigned(part)
        neg   == part # <<>> /\ Head(part) = "-"
        pieces == Split(body, ".")
        ip    == IF pieces[1] = <<>> THEN <<"0">> ELSE pieces[1]
        fp    == IF Len(pieces) > 1 THEN pieces[2] ELSE <<>>
        kept  == IF Len(fp) >= Precision THEN SubSeq(fp, 1, Precision)
                 ELSE fp \o Zeros(Precision - Len(fp))
        tail  == IF Len(fp) > Precision
                 THEN SubSeq(fp, Precision + 1, Len(fp)) ELSE <<>>
        rest  == IF tail = <<>> THEN <<>> ELSE Tail(tail)
        restZero == \A k \in 1..Len(rest) : rest[k] = "0"
        up    == /\ tail # <<>>
                 /\ \/ DigitVal(tail[1]) > 5
                    \/ DigitVal(tail[1]) = 5 /\ ~restZero
                    \/ /\ DigitVal(tail[1]) = 5 /\ restZero
                       /\ DigitVal(kept[Precision]) % 2 = 1
        all   == ip \o kept
        rnd   == IF up THEN Increment(all) ELSE all
        n     == Len(rnd)
        ipart == StripZeros(SubSeq(rnd, 1, n - Precision))
        fpart == SubSeq(rnd, n - Precision + 1, n)
    IN  (IF neg THEN <<"-">> ELSE <<>>) \o ipart \o <<".">> \o fpart

\* lines 174-186: one field of a line
NormalizePart(rawpart) ==
    LET part == Strip(rawpart)
    IN  IF IsFloat(part)
        THEN IF Count(part, ".") > 0 THEN FormatFloat(part) ELSE part
        ELSE part

\* lines 171-188: one non-blank line
NormalizeLine(line) ==
    LET parts == Split(line, "|")
    IN  Join([k \in 1..Len(parts) |-> NormalizePart(parts[k])], "|")

RECURSIVE NormalizeLines(_)
NormalizeLines(lines) ==
    IF lines = <<>> THEN <<>>
    ELSE IF Strip(Head(lines)) = <<>>
         THEN NormalizeLines(Tail(lines))
         ELSE <<NormalizeLine(Head(lines))>> \o NormalizeLines(Tail(lines))

\* SQLiteRunner._normalize_output
_normalize_output(output) ==
    Join(NormalizeLines(Split(Strip(output), "\n")), "\n")


(***************************************************************************)
(* Paths.  An executable path is the sequence of its '-'-separated pieces, *)
(* so that path.split('-')[-1] is its last piece.  A data path is a record *)
(* [dir, id, name]: a snapshot is temp_dir/{id}_{name}; NonePath is the    *)
(* Python value None.                                                      *)
(***************************************************************************)
ReferencePath == <<"sqlite3", "3.26.0">>

TargetA == <<"sqlite3", "3.39.4">>

TargetB == <<"sqlite3_dev">>

\* the target lists a runner is constructed with (one of them lists a path twice)
TargetLists == {<<TargetA>>, <<TargetA, TargetB>>, <<TargetA, TargetA>>}

NonePath == [dir |-> "", id |-> 0, name |-> "None"]

MemoryPath == [dir |-> "", id |-> 0, name |-> ":memory:"]

BasePath == [dir |-> "data", id |-> 0, name |-> "base.db"]

MissingPath == [dir |-> "data", id |-> 0, name |-> "missing.db"]

DbPaths == {MemoryPath, BasePath, MissingPath}

Statements == {"SELECT"}

SnapshotPath(random_id, db_path) ==
    [dir |-> "temp_dir", id |-> random_id, name |-> db_path.name]

\* path.split('-')[-1] if '-' in path else "unknown"
Version(path) == IF Len(path) > 1 THEN path[Len(path)] ELSE "unknown"

Outcomes == {"PASS", "CRASH", "LOGIC_BUG", "REFERENCE_ERROR", "INVALID_QUERY"}

NoneDir == <<>>

\* dict assignment d[k] = v
Put(d, k, v) == [q \in DOMAIN d \cup {k} |-> IF q = k THEN v ELSE d[q]]

EmptyDict == <<>>

Range(s) == {s[k] : k \in DOMAIN s}

(***************************************************************************)
(* Bounds and the environment: what an external program may do when it is  *)
(* run once.                                                               *)
(***************************************************************************)
\* the number of run calls made on one runner
MaxTrials == 2

\* the texts a program that exits may have written to stdout
Outputs ==
    { <<"5">>,
      <<"6">>,
      <<"1", "|", "2", ".", "0">>,
      <<"1", "|", "2", ".", "0", "0", "0", "0", "0", "0", "0", "0", "0", "0", "1">>,
      <<" ", "5", "\n", "\n">> }

SessionOutputs == {<<"5">>, <<"6">>}

ErrorText == <<"E">>

\* str(e) of the exception a failed launch raised
LaunchDescription == <<"D">>

\* str(e) of the TypeError subprocess.run raises for a None argument
TypeErrorDescription == <<"T">>

\* One run of an external program, as the environment decides it:
\*   "prepare_failed": creating or writing the temporary .sql file raised;
\*   "exit": the program ran and exited with returncode;
\*   "timeout": subprocess.run raised TimeoutExpired;
\*   "launch_failed": opening the .sql file or subprocess.run raised another
\*                    exception (missing binary, permission, bad argument).
Exits(outs, codes) ==
    {[kind |-> "exit", returncode |-> 0, stdout |-> o, stderr |-> <<>>] :
        o \in outs}
    \cup {[kind |-> "exit", returncode |-> c, stdout |-> <<>>, stderr |-> ErrorText] :
        c \in codes}

Failures ==
    {[kind |-> "timeout", returncode |-> 0, stdout |-> NoneText, stderr |-> NoneText],
     [kind |-> "launch_failed", returncode |-> 0, stdout |-> NoneText,
      stderr |-> LaunchDescription],
     [kind |-> "prepare_failed", returncode |-> 0, stdout |-> NoneText,
      stderr |-> NoneText]}

\* every way a program run can end
RunBehaviours == Exits(Outputs, {1, 139}) \cup Failures

\* the programs of a session: they start and exit, and the reference, when
\* it succeeds, prints the one expected output
SessionBehaviours == Exits(SessionOutputs, {1})

SessionReferenceBehaviours == Exits({<<"5">>}, {1})

VARIABLES
    target_sqlite_paths,   \* self.target_sqlite_paths
    total_trials,          \* self.total_trials
    files,                 \* the data files on disk (base file and snapshots)
    temp_dir_exists,       \* self.temp_dir is a directory
    uuids,                 \* how many random identifiers were drawn
    stats,                 \* self.stats
    current_trial,         \* self.current_trial
    run_results,           \* self.run_results, the trailing history
    start_time,            \* self.start_time is set
    live_display,          \* self.live_display is set
    pc,                    \* where the driver and the current call are
    trials,                \* run calls made so far
    inp,                   \* run: the input tuple
    reference_db_path,     \* run: local
    target_db_paths,       \* run: local dict
    saved_db_path,         \* run: local
    i,                     \* run: position of the loops over target_sqlite_paths
    reference_result,      \* run: local
    trial_results,         \* run: the local dict run_results, then its return value
    executions,            \* the _run_sqlite calls of the current trial, in order
    passed,                \* per target, RunResults passed to record_results since reset
    archive,               \* the archiver: reproducers saved
    archive_failures,      \* the archiver: failed attempts it reported
    output,                \* _normalize_output: the text it is applied to
    normalized             \* _normalize_output: the text it returned, or None

runner_vars == <<target_sqlite_paths, total_trials, files, temp_dir_exists, uuids>>

session_vars == <<stats, current_trial, run_results, start_time, live_display,
                  passed, archive, archive_failures>>

trial_vars == <<inp, reference_db_path, target_db_paths, saved_db_path, i,
                reference_result, trial_results, executions>>

text_vars == <<output, normalized>>

vars == <<runner_vars, session_vars, trial_vars, pc, trials, text_vars>>

NoResult == [returncode |-> 0, stdout |-> NoneText, stderr |-> NoneText]

ZeroStats == [o \in Outcomes |-> 0]

\* SQLiteRunner.__init__, given total_trials
ConstructedFor(total) ==
    /\ target_sqlite_paths \in TargetLists
    /\ total_trials = total
    /\ files = {BasePath}
    /\ temp_dir_exists = TRUE
    /\ uuids = 0
    /\ stats = [p \in Range(target_sqlite_paths) |-> ZeroStats]
    /\ current_trial = 0
    /\ run_results = <<>>
    /\ start_time = FALSE
    /\ live_display = FALSE
    /\ pc = "idle"
    /\ trials = 0
    /\ inp = [sql_query |-> "SELECT", db_path |-> NonePath]
    /\ reference_db_path = NonePath
    /\ target_db_paths = EmptyDict
    /\ saved_db_path = NonePath
    /\ i = 1
    /\ reference_result = NoResult
    /\ trial_results = EmptyDict
    /\ executions = <<>>
    /\ passed = [p \in Range(target_sqlite_paths) |-> 0]
    /\ archive = <<>>
    /\ archive_failures = {}

\* a runner constructed for as many trials as are run
Constructed == ConstructedFor(MaxTrials)

\* a constructed runner; no text is being normalized
Init ==
    /\ Constructed
    /\ output = <<>>
    /\ normalized = NoneText

\* no call is in progress
Idle == pc \in {"idle", "returned", "raised", "record_raised", "start_raised"}

\* the driver passes the dict run returned to record_results before it calls
\* anything else
Quiet == Idle /\ pc # "returned"

(***************************************************************************)
(* _save_database_state                                                    *)
(***************************************************************************)
\* line 86 without its os.path.exists test
HasDatabaseUnchecked(db_path) ==
    db_path # NonePath /\ db_path # MemoryPath

\* line 86
HasDatabase(db_path) ==
    db_path # NonePath /\ db_path # MemoryPath /\ db_path \in files

\* _save_database_state removing the snapshots taken before when it takes one
_save_database_state_replacing(db_path, copy_ok) ==
    IF HasDatabase(db_path)
    THEN IF copy_ok /\ temp_dir_exists
         THEN [raised |-> FALSE,
               path   |-> SnapshotPath(uuids + 1, db_path),
               files  |-> {f \in files : f.dir # "temp_dir"}
                              \cup {SnapshotPath(uuids + 1, db_path)},
               uuids  |-> uuids + 1]
         ELSE [raised |-> TRUE, path |-> NonePath, files |-> files,
               uuids |-> uuids + 1]
    ELSE [raised |-> FALSE, path |-> NonePath, files |-> files, uuids |-> uuids]

\* _save_database_state swallowing the exception of shutil.copy2 and
\* returning None
_save_database_state_swallowing(db_path, copy_ok) ==
    IF HasDatabase(db_path)
    THEN IF copy_ok /\ temp_dir_exists
         THEN [raised |-> FALSE,
               path   |-> SnapshotPath(uuids + 1, db_path),
               files  |-> files \cup {SnapshotPath(uuids + 1, db_path)},
               uuids  |-> uuids + 1]
         ELSE [raised |-> FALSE, path |-> NonePath, files |-> files,
               uuids |-> uuids + 1]
    ELSE [raised |-> FALSE, path |-> NonePath, files |-> files, uuids |-> uuids]

\* lines 86-95; copy_ok: shutil.copy2 did not raise
_save_database_state(db_path, copy_ok) ==
    IF HasDatabase(db_path)
    THEN IF copy_ok /\ temp_dir_exists
         THEN [raised |-> FALSE,
               path   |-> SnapshotPath(uuids + 1, db_path),
               files  |-> files \cup {SnapshotPath(uuids + 1, db_path)},
               uuids  |-> uuids + 1]
         ELSE [raised |-> TRUE, path |-> NonePath, files |-> files,
               uuids |-> uuids + 1]
    ELSE [raised |-> FALSE, path |-> NonePath, files |-> files, uuids |-> uuids]

(***************************************************************************)
(* _run_sqlite                                                             *)
(***************************************************************************)
\* _run_sqlite without the TimeoutExpired handler of lines 136-139
_run_sqlite_unhandled_timeout(sqlite_path, sql_query, db_path, env) ==
    IF env.kind \in {"prepare_failed", "timeout"}
    THEN [raised |-> TRUE, launched |-> env.kind = "timeout", result |-> NoResult]
    ELSE IF db_path = NonePath \/ env.kind = "launch_failed"
    THEN [raised |-> FALSE, launched |-> FALSE,
          result |-> [returncode |-> -1, stdout |-> NoneText,
                      stderr |-> IF db_path = NonePath THEN TypeErrorDescription
                                 ELSE env.stderr]]
    ELSE [raised |-> FALSE, launched |-> TRUE,
          result |-> [returncode |-> env.returncode, stdout |-> env.stdout,
                      stderr |-> env.stderr]]

\* lines 110-150: the ExecutionResult returned, or raised.  env is what the
\* environment does with the temporary file and the program.  With db_path
\* None the argument list [sqlite_path, None] of line 122 makes subprocess.run
\* raise TypeError before any program starts, which line 140 catches.
_run_sqlite(sqlite_path, sql_query, db_path, env) ==
    IF env.kind = "prepare_failed"
    THEN [raised |-> TRUE, launched |-> FALSE, result |-> NoResult]
    ELSE IF db_path = NonePath
    THEN [raised |-> FALSE, launched |-> FALSE,
          result |-> [returncode |-> -1, stdout |-> NoneText,
                      stderr |-> TypeErrorDescription]]
    ELSE IF env.kind = "exit"
    THEN [raised |-> FALSE, launched |-> TRUE,
          result |-> [returncode |-> env.returncode, stdout |-> env.stdout,
                      stderr |-> env.stderr]]
    ELSE IF env.kind = "timeout"
    THEN [raised |-> FALSE, launched |-> TRUE,
          result |-> [returncode |-> -1, stdout |-> env.stdout,
                      stderr |-> env.stderr]]
    ELSE [raised |-> FALSE, launched |-> FALSE,
          result |-> [returncode |-> -1, stdout |-> NoneText,
                      stderr |-> env.stderr]]

\* the record the model keeps of one _run_sqlite call
Execution(sqlite_path, role, db_path, env, r) ==
    [sqlite_path |-> sqlite_path, role |-> role, db_path |-> db_path, env |-> env,
     launched |-> r.launched, raised |-> r.raised, result |-> r.result]

(***************************************************************************)
(* run: classification, lines 233-253                                      *)
(***************************************************************************)
\* the classification comparing the raw outputs
ClassifyRaw(reference, target) ==
    LET target_crashed    == target.returncode # 0
        reference_crashed == reference.returncode # 0
    IN  IF target_crashed /\ ~reference_crashed THEN "CRASH"
        ELSE IF ~target_crashed /\ reference_crashed THEN "REFERENCE_ERROR"
        ELSE IF ~target_crashed /\ ~reference_crashed
             THEN IF target.stdout # reference.stdout THEN "LOGIC_BUG" ELSE "PASS"
        ELSE "INVALID_QUERY"

Classify(reference, target) ==
    LET target_crashed    == target.returncode # 0
        reference_crashed == reference.returncode # 0
    IN  IF target_crashed /\ ~reference_crashed THEN "CRASH"
        ELSE IF ~target_crashed /\ reference_crashed THEN "REFERENCE_ERROR"
        ELSE IF ~target_crashed /\ ~reference_crashed
             THEN IF _normalize_output(target.stdout)
                        # _normalize_output(reference.stdout)
                  THEN "LOGIC_BUG"
                  ELSE "PASS"
        ELSE "INVALID_QUERY"

\* the RunResult with the target's result passed for the reference's
RunResultMixedUp(outcome, sql_query, db_path, saved, target_path, target_result, reference_path, ref_result) ==
    [outcome |-> outcome,
     sql_query |-> sql_query,
     db_path |-> db_path,
     saved_db_path |-> saved,
     target_sqlite_version |-> Version(target_path),
     target_result |-> target_result,
     reference_sqlite_version |-> Version(reference_path),
     reference_result |-> target_result,
     bug_dir |-> NoneDir]

\* lines 255-263
RunResult(outcome, sql_query, db_path, saved, target_path, target_result, reference_path, ref_result) ==
    [outcome |-> outcome,
     sql_query |-> sql_query,
     db_path |-> db_path,
     saved_db_path |-> saved,
     target_sqlite_version |-> Version(target_path),
     target_result |-> target_result,
     reference_sqlite_version |-> Version(reference_path),
     reference_result |-> ref_result,
     bug_dir |-> NoneDir]

(***************************************************************************)
(* run, one step per _save_database_state or _run_sqlite call.  Nothing    *)
(* else runs between the steps of a call: the runner is single-threaded.   *)
(***************************************************************************)
LastTarget == i = Len(target_sqlite_paths)

\* the order with the pristine copy taken after the reference has run
FlowPristineLate(step) ==
    CASE step = "save_reference" -> "save_targets"
      [] step = "save_targets"   -> "run_reference"
      [] step = "run_reference"  -> "save_pristine"
      [] step = "save_pristine"  -> "run_targets"
      [] step = "run_targets"    -> "returned"

\* the order of the statements of run: what follows each of its steps
Flow(step) ==
    CASE step = "save_reference" -> "save_targets"
      [] step = "save_targets"   -> "save_pristine"
      [] step = "save_pristine"  -> "run_reference"
      [] step = "run_reference"  -> "run_targets"
      [] step = "run_targets"    -> "returned"

\* lines 202-205: unpack the input, snapshot for the reference
RunStart ==
    /\ Idle
    /\ trials < MaxTrials
    /\ \E sql_query \in Statements, db_path \in DbPaths, copy_ok \in BOOLEAN :
          LET s == _save_database_state(db_path, copy_ok)
          IN  /\ inp' = [sql_query |-> sql_query, db_path |-> db_path]
              /\ reference_db_path' = s.path
              /\ files' = s.files
              /\ uuids' = s.uuids
              /\ pc' = IF s.raised THEN "raised" ELSE Flow("save_reference")
    /\ trials' = trials + 1
    /\ target_db_paths' = EmptyDict
    /\ saved_db_path' = NonePath
    /\ i' = 1
    /\ reference_result' = NoResult
    /\ trial_results' = EmptyDict
    /\ executions' = <<>>
    /\ UNCHANGED <<target_sqlite_paths, total_trials, temp_dir_exists, session_vars,
                   text_vars>>

\* lines 208-210: one iteration of the snapshot loop
SaveTarget ==
    /\ pc = "save_targets"
    /\ \E copy_ok \in BOOLEAN :
          LET s == _save_database_state(inp.db_path, copy_ok)
          IN  /\ target_db_paths' =
                    IF s.raised THEN target_db_paths
                    ELSE Put(target_db_paths, target_sqlite_paths[i], s.path)
              /\ files' = s.files
              /\ uuids' = s.uuids
              /\ pc' = IF s.raised THEN "raised"
                       ELSE IF LastTarget THEN Flow("save_targets")
                       ELSE "save_targets"
              /\ i' = IF s.raised \/ LastTarget THEN 1 ELSE i + 1
    /\ UNCHANGED <<target_sqlite_paths, total_trials, temp_dir_exists, session_vars,
                   inp, reference_db_path, saved_db_path, reference_result,
                   trial_results, executions, trials, text_vars>>

\* line 213: the pristine copy kept for the reproducer
SavePristine ==
    /\ pc = "save_pristine"
    /\ \E copy_ok \in BOOLEAN :
          LET s == _save_database_state(inp.db_path, copy_ok)
          IN  /\ saved_db_path' = s.path
              /\ files' = s.files
              /\ uuids' = s.uuids
              /\ pc' = IF s.raised THEN "raised" ELSE Flow("save_pristine")
    /\ UNCHANGED <<target_sqlite_paths, total_trials, temp_dir_exists, session_vars,
                   inp, reference_db_path, target_db_paths, i, reference_result,
                   trial_results, executions, trials, text_vars>>

\* line 216
RunReference(behaviours) ==
    /\ pc = "run_reference"
    /\ \E env \in behaviours :
          /\ LET r == _run_sqlite(ReferencePath, inp.sql_query, reference_db_path, env)
             IN  /\ reference_result' = r.result
                 /\ executions' = Append(executions,
                        Execution(ReferencePath, "reference", reference_db_path,
                                  env, r))
                 /\ pc' = IF r.raised THEN "raised" ELSE Flow("run_reference")
    /\ i' = 1
    /\ UNCHANGED <<runner_vars, session_vars, inp, reference_db_path,
                   target_db_paths, saved_db_path, trial_results, trials, text_vars>>

\* lines 221-265: one iteration of the loop over the targets; line 267 after
\* the last one
RunTarget(behaviours) ==
    /\ pc = "run_targets"
    /\ \E env \in behaviours :
          LET target_sqlite_path == target_sqlite_paths[i]
              target_db_path == target_db_paths[target_sqlite_path]
          IN  /\ LET r == _run_sqlite(target_sqlite_path, inp.sql_query,
                                      target_db_path, env)
                     outcome == Classify(reference_result, r.result)
                 IN  /\ executions' = Append(executions,
                            Execution(target_sqlite_path, "target", target_db_path,
                                      env, r))
                     /\ trial_results' =
                            IF r.raised THEN trial_results
                            ELSE Put(trial_results, target_sqlite_path,
                                     RunResult(outcome, inp.sql_query, target_db_path,
                                               saved_db_path, target_sqlite_path,
                                               r.result, ReferencePath,
                                               reference_result))
                     /\ pc' = IF r.raised THEN "raised"
                              ELSE IF LastTarget THEN Flow("run_targets")
                              ELSE "run_targets"
                     /\ i' = IF r.raised \/ LastTarget THEN 1 ELSE i + 1
    /\ UNCHANGED <<runner_vars, session_vars, inp, reference_db_path,
                   target_db_paths, saved_db_path, reference_result, trials,
                   text_vars>>

\* The runner under every behaviour of the programs it runs: run calls only.
RunNext ==
    \/ RunStart
    \/ SaveTarget
    \/ SavePristine
    \/ RunReference(RunBehaviours)
    \/ RunTarget(RunBehaviours)

RunSpec == Init /\ [][RunNext]_vars

(***************************************************************************)
(* The session: start_fuzzing_session, record_results,                     *)
(* finish_fuzzing_session, cleanup.  Each is one step.                     *)
(***************************************************************************)
\* _generate_progress_display raises ZeroDivisionError: line 354 divides by
\* total_trials once start_time is set (line 396 guards its own division)
DisplayRaises(started, total) == started /\ total = 0

\* start_fuzzing_session without the loop of lines 276-278
start_fuzzing_session_keeping_counts ==
    /\ Quiet
    /\ start_time' = TRUE
    /\ current_trial' = 0
    /\ run_results' = <<>>
    /\ passed' = [p \in DOMAIN passed |-> 0]
    /\ IF DisplayRaises(TRUE, total_trials)
       THEN live_display' = live_display /\ pc' = "start_raised"
       ELSE live_display' = TRUE /\ pc' = pc
    /\ UNCHANGED <<runner_vars, trial_vars, trials, archive, archive_failures, stats,
                   text_vars>>

\* lines 269-282
start_fuzzing_session ==
    /\ Quiet
    /\ start_time' = TRUE
    /\ current_trial' = 0
    /\ run_results' = <<>>
    /\ stats' = [p \in DOMAIN stats |-> [o \in DOMAIN stats[p] |-> 0]]
    /\ passed' = [p \in DOMAIN passed |-> 0]
    /\ IF DisplayRaises(TRUE, total_trials)
       THEN live_display' = live_display /\ pc' = "start_raised"
       ELSE live_display' = TRUE /\ pc' = pc
    /\ UNCHANGED <<runner_vars, trial_vars, trials, archive, archive_failures,
                   text_vars>>

\* line 473: the outcomes a reproducer is saved for
ArchivedOutcomesWithoutReferenceError == {"CRASH", "LOGIC_BUG"}

ArchivedOutcomes == {"CRASH", "LOGIC_BUG", "REFERENCE_ERROR"}

\* line 488
max_results_to_keep == 50

\* the keys of the dict run returned, in insertion order
RECURSIVE Keys(_, _)
Keys(paths, seen) ==
    IF paths = <<>> THEN <<>>
    ELSE IF Head(paths) \in seen THEN Keys(Tail(paths), seen)
    ELSE <<Head(paths)>> \o Keys(Tail(paths), seen \cup {Head(paths)})

\* BugTracker.save_reproducer, as the runner sees it: it returns the location
\* of the saved reproducer, or reports that it could not save by raising
ArchiverModes == {"saved", "failed"}

save_reproducer(saved, bug_type, run_result) ==
    [location |-> <<"bugs", Len(saved) + 1>>,
     entry    |-> [bug_type |-> bug_type,
                   db_path |-> run_result.db_path,
                   saved_db_path |-> run_result.saved_db_path,
                   target_sqlite_version |-> run_result.target_sqlite_version]]

\* the counting with the counter set to one instead of raised by one
CountedFromZero(counters, target_path, outcome) ==
    [counters EXCEPT ![target_path][outcome] = 1]

\* lines 465-466
Counted(counters, target_path, outcome) ==
    [counters EXCEPT ![target_path][outcome] = @ + 1]

\* lines 463-485: the loop over the items of the dict, from item k on; it
\* stops at the first save_reproducer call that raises
RECURSIVE RecordLoop(_, _, _, _)
RecordLoop(items, k, modes, st) ==
    IF k > Len(items) \/ st.raised THEN st
    ELSE LET target_path == items[k]
             run_result  == st.results[target_path]
             outcome     == run_result.outcome
             archivable  == outcome \in ArchivedOutcomes
             saved       == archivable /\ modes[k] = "saved"
             failed      == archivable /\ modes[k] = "failed"
             made        == save_reproducer(st.archive, outcome, run_result)
             attached    == IF saved
                            THEN [run_result EXCEPT !.bug_dir = made.location]
                            ELSE run_result
         IN  RecordLoop(items, k + 1, modes,
                 [stats |-> Counted(st.stats, target_path, outcome),
                  run_results |-> Append(st.run_results, <<target_path, attached>>),
                  results |-> Put(st.results, target_path, attached),
                  archive |-> IF saved THEN Append(st.archive, made.entry)
                              ELSE st.archive,
                  archive_failures |->
                      IF failed
                      THEN st.archive_failures \cup {<<target_path, run_result>>}
                      ELSE st.archive_failures,
                  raised |-> failed])

\* lines 487-490
Trailing(history) ==
    IF Len(history) > max_results_to_keep
    THEN SubSeq(history, Len(history) - max_results_to_keep + 1, Len(history))
    ELSE history

\* lines 452-494, called with the dict the last run call returned; afterwards
\* the driver holds nothing of the trial any more
record_results ==
    /\ pc = "returned"
    /\ \E modes \in [1..Len(Keys(target_sqlite_paths, {})) -> ArchiverModes] :
          LET items == Keys(target_sqlite_paths, {})
              st == RecordLoop(items, 1, modes,
                        [stats |-> stats, run_results |-> run_results,
                         results |-> trial_results, archive |-> archive,
                         archive_failures |-> archive_failures,
                         raised |-> FALSE])
          IN  /\ stats' = st.stats
              /\ archive' = st.archive
              /\ archive_failures' = st.archive_failures
              /\ run_results' = IF st.raised THEN st.run_results
                                ELSE Trailing(st.run_results)
              /\ pc' = IF st.raised
                            \/ (live_display
                                    /\ DisplayRaises(start_time, total_trials))
                       THEN "record_raised" ELSE "idle"
    /\ current_trial' = current_trial + 1
    /\ passed' = [p \in DOMAIN passed |->
                      IF p \in DOMAIN trial_results THEN passed[p] + 1
                      ELSE passed[p]]
    /\ inp' = [sql_query |-> "SELECT", db_path |-> NonePath]
    /\ reference_db_path' = NonePath
    /\ target_db_paths' = EmptyDict
    /\ saved_db_path' = NonePath
    /\ i' = 1
    /\ reference_result' = NoResult
    /\ trial_results' = EmptyDict
    /\ executions' = <<>>
    /\ UNCHANGED <<runner_vars, start_time, live_display, trials, text_vars>>

\* lines 496-500: stops the display, which stays attached to the runner
finish_fuzzing_session ==
    /\ Quiet
    /\ UNCHANGED vars

\* lines 502-511: the last call made on a runner
cleanup ==
    /\ Quiet
    /\ files' = IF temp_dir_exists THEN {f \in files : f.dir # "temp_dir"} ELSE files
    /\ temp_dir_exists' = FALSE
    /\ pc' = "closed"
    /\ UNCHANGED <<target_sqlite_paths, total_trials, uuids, session_vars,
                   trial_vars, trials, text_vars>>

\* The runner in a session: every operation, the programs bounded to
\* SessionBehaviours.
Next ==
    \/ RunStart
    \/ SaveTarget
    \/ SavePristine
    \/ RunReference(SessionReferenceBehaviours)
    \/ RunTarget(SessionBehaviours)
    \/ start_fuzzing_session
    \/ record_results
    \/ finish_fuzzing_session
    \/ cleanup

Spec == Init /\ [][Next]_vars

(***************************************************************************)
(* Properties of run, checked under RunSpec.                               *)
(***************************************************************************)
Last(seq) == seq[Len(seq)]

Configured == Range(target_sqlite_paths)

\* C1: every RunResult of a trial has exactly the outcome the table of the
\* two exit statuses and the normalized outputs gives: CRASH iff only the
\* target failed, REFERENCE_ERROR iff only the reference failed, INVALID_QUERY
\* iff both failed, PASS iff both exited 0 with equal normalized output,
\* LOGIC_BUG iff both exited 0 with different normalized output; two results
\* built from the same pair of execution results have the same outcome.
C1_OutcomeTable ==
    \A p \in DOMAIN trial_results :
        LET rr   == trial_results[p]
            t    == rr.target_result
            r    == rr.reference_result
            same == _normalize_output(t.stdout) = _normalize_output(r.stdout)
        IN  /\ rr.outcome \in Outcomes
            /\ (rr.outcome = "CRASH") <=> (t.returncode # 0 /\ r.returncode = 0)
            /\ (rr.outcome = "REFERENCE_ERROR")
                   <=> (r.returncode # 0 /\ t.returncode = 0)
            /\ (rr.outcome = "INVALID_QUERY")
                   <=> (r.returncode # 0 /\ t.returncode # 0)
            /\ (rr.outcome = "PASS")
                   <=> (r.returncode = 0 /\ t.returncode = 0 /\ same)
            /\ (rr.outcome = "LOGIC_BUG")
                   <=> (r.returncode = 0 /\ t.returncode = 0 /\ ~same)
            /\ \A q \in DOMAIN trial_results :
                   (trial_results[q].target_result = t
                        /\ trial_results[q].reference_result = r)
                   => trial_results[q].outcome = rr.outcome

\* a trial returned PASS for outputs that differ before normalization and a
\* LOGIC_BUG for another target
C1_Witness ==
    /\ pc = "returned"
    /\ TargetA \in DOMAIN trial_results /\ TargetB \in DOMAIN trial_results
    /\ trial_results[TargetA].outcome = "PASS"
    /\ trial_results[TargetA].target_result.stdout
           # trial_results[TargetA].reference_result.stdout
    /\ trial_results[TargetB].outcome = "LOGIC_BUG"

\* C2: no _run_sqlite call propagates an exception, however the execution
\* ends (exit, timeout, failed launch, failed preparation of the statement
\* file); a timeout or failed launch gives exit status -1, a failed launch
\* with its description in stderr.
C2_NeverPropagates ==
    \A k \in DOMAIN executions :
        LET e == executions[k]
        IN  /\ ~e.raised
            /\ e.env.kind \in {"timeout", "launch_failed"}
                   => e.result.returncode = -1
            /\ (e.env.kind = "launch_failed" /\ e.db_path # NonePath)
                   => e.result.stderr = e.env.stderr

\* C3: an execution that ends by exit, timeout or failed launch never raises
\* and never ends the call; a returned call has run the reference and every
\* entry of the target list in order and holds a RunResult for every
\* configured target, a failed target being CRASH when the reference exited
\* 0 and INVALID_QUERY otherwise.
C3_FailingTargetNeverAborts ==
    /\ \A k \in DOMAIN executions :
           executions[k].env.kind \in {"exit", "timeout", "launch_failed"}
               => ~executions[k].raised
    /\ (pc = "raised" /\ executions # <<>>)
           => Last(executions).env.kind = "prepare_failed"
    /\ pc = "returned" =>
           /\ Len(executions) = 1 + Len(target_sqlite_paths)
           /\ \A k \in 2..Len(executions) :
                  executions[k].sqlite_path = target_sqlite_paths[k - 1]
           /\ DOMAIN trial_results = Configured
           /\ \A p \in Configured :
                  trial_results[p].target_result.returncode # 0 =>
                      trial_results[p].outcome =
                          IF trial_results[p].reference_result.returncode = 0
                          THEN "CRASH" ELSE "INVALID_QUERY"

\* the first of two targets timed out and the second still ran and passed
C3_Witness ==
    /\ pc = "returned"
    /\ target_sqlite_paths = <<TargetA, TargetB>>
    /\ executions[2].env.kind = "timeout"
    /\ executions[3].env.kind = "exit"
    /\ trial_results[TargetA].outcome = "CRASH"
    /\ trial_results[TargetB].outcome = "PASS"

\* C4: every execution of a trial that is given a data file is given a
\* snapshot in the scratch directory, never the base file, and no two
\* executions of the trial are given the same file.
C4_OwnSnapshot ==
    \A j \in DOMAIN executions :
        executions[j].db_path # NonePath =>
            /\ executions[j].db_path.dir = "temp_dir"
            /\ executions[j].db_path # inp.db_path
            /\ \A k \in DOMAIN executions :
                   j # k => executions[j].db_path # executions[k].db_path

\* C5: once a program of the trial has run, the snapshots for the reference,
\* for every target and the pristine copy have all been taken, and no step
\* that takes a snapshot or draws a snapshot name follows an execution of
\* the same trial.
C5_AllTaken ==
    (executions # <<>> /\ HasDatabase(inp.db_path)) =>
        /\ reference_db_path.dir = "temp_dir"
        /\ saved_db_path.dir = "temp_dir"
        /\ DOMAIN target_db_paths = Configured
        /\ \A p \in Configured : target_db_paths[p].dir = "temp_dir"

C5_NoLateSnapshot ==
    (files' # files \/ uuids' # uuids) => executions' = <<>>

C5_SnapshotsBeforeExecutions ==
    [](C5_AllTaken) /\ [][C5_NoLateSnapshot]_vars

\* a trial on an existing base file returned, with all four snapshots taken
C5_Witness ==
    /\ pc = "returned"
    /\ inp.db_path = BasePath
    /\ target_sqlite_paths = <<TargetA, TargetB>>
    /\ Len(executions) = 3
    /\ {reference_db_path, saved_db_path, target_db_paths[TargetA],
        target_db_paths[TargetB]} \subseteq files
    /\ Cardinality({reference_db_path, saved_db_path, target_db_paths[TargetA],
                    target_db_paths[TargetB]}) = 4

\* C6: the first _run_sqlite call of a trial, and no other, runs the
\* reference; every RunResult a returned call holds carries the result of
\* that one call.
C6_ReferenceOnce ==
    /\ \A k \in DOMAIN executions :
           (executions[k].role = "reference") <=> (k = 1)
    /\ \A k \in DOMAIN executions :
           (executions[k].sqlite_path = ReferencePath) <=> (k = 1)
    /\ \A p \in DOMAIN trial_results :
           /\ ~executions[1].raised
           /\ trial_results[p].reference_result = executions[1].result
           /\ trial_results[p].reference_result = reference_result

\* two targets with different results of their own share the reference result
C6_Witness ==
    /\ pc = "returned"
    /\ target_sqlite_paths = <<TargetA, TargetB>>
    /\ trial_results[TargetA].target_result # trial_results[TargetB].target_result
    /\ trial_results[TargetA].target_result # reference_result
    /\ trial_results[TargetB].target_result # reference_result
    /\ reference_result.returncode = 0

C8_MemoryExecutes ==
    (trials > 0 /\ inp.db_path = MemoryPath) =>
        /\ \A k \in DOMAIN executions :
               executions[k].env.kind \in {"exit", "timeout"}
                   => executions[k].launched
        /\ pc = "returned" =>
               \A k \in 2..Len(executions) :
                   LET r == executions[1].env
                       t == executions[k].env
                   IN  (/\ r.kind = "exit" /\ r.returncode = 0
                        /\ t.kind = "exit" /\ t.returncode = 0
                        /\ _normalize_output(r.stdout) = _normalize_output(t.stdout)
                        /\ \A h \in (k + 1)..Len(executions) :
                               executions[h].sqlite_path # executions[k].sqlite_path)
                       => trial_results[executions[k].sqlite_path].outcome = "PASS"

(***************************************************************************)
(* Properties of the session, checked under Spec.                          *)
(***************************************************************************)
Total(counts) ==
    counts["PASS"] + counts["CRASH"] + counts["LOGIC_BUG"]
        + counts["REFERENCE_ERROR"] + counts["INVALID_QUERY"]

\* C9: for every target the five counters add up to the number of
\* RunResults of that target passed to record_results since the last reset.
C9_CountsMatchPassed ==
    \A p \in DOMAIN stats : Total(stats[p]) = passed[p]

\* C10: every recorded RunResult whose outcome is not PASS has an archive
\* location or a failed archiving attempt reported for it.
C10_EveryNonPassArchived ==
    \A k \in DOMAIN run_results :
        run_results[k][2].outcome # "PASS" =>
            \/ run_results[k][2].bug_dir # NoneDir
            \/ run_results[k] \in archive_failures

\* C10, amended: every recorded RunResult whose outcome is CRASH, LOGIC_BUG
\* or REFERENCE_ERROR has the location of a reproducer saved for that outcome
\* or a failed archiving attempt reported for it; a recorded PASS or
\* INVALID_QUERY result has neither.
C10_BugOutcomesArchived ==
    \A k \in DOMAIN run_results :
        LET e  == run_results[k]
            rr == e[2]
        IN  /\ rr.outcome \in {"CRASH", "LOGIC_BUG", "REFERENCE_ERROR"} =>
                   (rr.bug_dir # NoneDir \/ e \in archive_failures)
            /\ rr.outcome \in {"PASS", "INVALID_QUERY"} =>
                   (rr.bug_dir = NoneDir /\ e \notin archive_failures)
            /\ rr.bug_dir # NoneDir =>
                   /\ rr.bug_dir[2] \in DOMAIN archive
                   /\ archive[rr.bug_dir[2]].bug_type = rr.outcome
                   /\ e \notin archive_failures

\* the history holds an INVALID_QUERY result without a location, a result
\* with a location and a result whose archiving failed
C10_Witness ==
    /\ \E k \in DOMAIN run_results :
           /\ run_results[k][2].outcome = "INVALID_QUERY"
           /\ run_results[k][2].bug_dir = NoneDir
    /\ \E k \in DOMAIN run_results : run_results[k][2].bug_dir # NoneDir
    /\ \E k \in DOMAIN run_results : run_results[k] \in archive_failures

(***************************************************************************)
(* Properties of record_results and of the session's steps, checked under  *)
(* Spec.                                                                   *)
(***************************************************************************)
\* a step of record_results (line 460)
RecordStep == current_trial' = current_trial + 1

\* the results of the dict given to record_results that a reproducer is due for
BugResults(results) ==
    {p \in DOMAIN results : results[p].outcome \in {"CRASH", "LOGIC_BUG", "REFERENCE_ERROR"}}

\* C11: a record_results call hands every RunResult of its dict whose outcome
\* is CRASH, LOGIC_BUG or REFERENCE_ERROR to the archiver once, after counting
\* it, and the history entry of that result carries the location the archiver
\* returned; a PASS or INVALID_QUERY result is never handed to the archiver
\* and gets no location.
C11_ArchiverCalled ==
    RecordStep =>
        /\ Len(archive') - Len(archive) <= Cardinality(BugResults(trial_results))
        /\ \A p \in DOMAIN trial_results :
               LET rr == trial_results[p]
               IN  IF p \in BugResults(trial_results)
                   THEN /\ stats'[p][rr.outcome] = stats[p][rr.outcome] + 1
                        /\ \/ <<p, rr>> \in archive_failures'
                           \/ \E n \in (Len(archive) + 1)..Len(archive') :
                                  /\ archive'[n].bug_type = rr.outcome
                                  /\ archive'[n].target_sqlite_version
                                         = rr.target_sqlite_version
                                  /\ \E k \in DOMAIN run_results' :
                                         run_results'[k] =
                                             <<p, [rr EXCEPT !.bug_dir = <<"bugs", n>>]>>
                   ELSE /\ <<p, rr>> \notin archive_failures'
                        /\ \A k \in DOMAIN run_results' :
                               run_results'[k][1] = p /\ k > Len(run_results)
                                   => run_results'[k][2].bug_dir = NoneDir

\* C11, of every step: each record_results call archives each bug result once
C11_ArchiverOncePerBugResult == [][C11_ArchiverCalled]_vars

\* C12: a record_results call in which the archiver fails for a RunResult
\* still returns normally, keeps that RunResult in the history without a
\* location, and counts and appends the RunResult of every target of its dict.
C12_FailureRecorded ==
    (RecordStep /\ archive_failures' # archive_failures) =>
        /\ pc' = "idle"
        /\ \A f \in archive_failures' \ archive_failures :
               \E k \in DOMAIN run_results' :
                   run_results'[k] = f /\ f[2].bug_dir = NoneDir
        /\ \A p \in DOMAIN trial_results :
               /\ Total(stats'[p]) = Total(stats[p]) + 1
               /\ \E k \in DOMAIN run_results' :
                      /\ k > Len(run_results)
                      /\ run_results'[k][1] = p
                      /\ run_results'[k][2].outcome = trial_results[p].outcome

\* C12, of every step: no record_results call is cut short by the archiver
C12_ArchivingFailureDoesNotAbort == [][C12_FailureRecorded]_vars

(***************************************************************************)
(* The session once its history is full.                                   *)
(***************************************************************************)
\* the state outside a run call: no trial in progress, nothing returned
NoTrial ==
    /\ pc = "idle"
    /\ trials = 0
    /\ inp = [sql_query |-> "SELECT", db_path |-> NonePath]
    /\ reference_db_path = NonePath
    /\ target_db_paths = EmptyDict
    /\ saved_db_path = NonePath
    /\ i = 1
    /\ reference_result = NoResult
    /\ trial_results = EmptyDict
    /\ executions = <<>>

\* the RunResult of a target in a trial on a base file that does not exist:
\* neither program was started (returncode -1 for both)
EarlierResult(target_path) ==
    LET failed == [returncode |-> -1, stdout |-> NoneText,
                   stderr |-> TypeErrorDescription]
    IN  RunResult(Classify(failed, failed), "SELECT", NonePath, NonePath, target_path, failed, ReferencePath, failed)

\* the history after max_results_to_keep such trials were recorded
FullHistory(keys) ==
    [k \in 1..max_results_to_keep |->
        <<keys[((k - 1) % Len(keys)) + 1],
          EarlierResult(keys[((k - 1) % Len(keys)) + 1])>>]

\* A started session in which max_results_to_keep trials on a missing base
\* file have been run and recorded; trials counts the run calls after them.
HistoryInit ==
    /\ target_sqlite_paths \in TargetLists
    /\ total_trials = max_results_to_keep + MaxTrials
    /\ files = {BasePath}
    /\ temp_dir_exists = TRUE
    /\ uuids = 0
    /\ stats = [p \in Range(target_sqlite_paths) |->
                   [ZeroStats EXCEPT !["INVALID_QUERY"] = max_results_to_keep]]
    /\ current_trial = max_results_to_keep
    /\ run_results = FullHistory(Keys(target_sqlite_paths, {}))
    /\ start_time = TRUE
    /\ live_display = TRUE
    /\ passed = [p \in Range(target_sqlite_paths) |-> max_results_to_keep]
    /\ archive = <<>>
    /\ archive_failures = {}
    /\ NoTrial
    /\ output = <<>>
    /\ normalized = NoneText

HistorySpec == HistoryInit /\ [][Next]_vars

\* C13: the history never holds more than max_results_to_keep entries, and a
\* record_results call leaves in it exactly the last max_results_to_keep of
\* the entries it held followed by the entries of the call, in that order.
C13_Bounded == Len(run_results) <= max_results_to_keep

C13_Trailing ==
    RecordStep =>
        \E n \in 0..Len(run_results') :
            /\ \A k \in 1..n :
                   run_results'[k] = run_results[Len(run_results) - n + k]
            /\ \A k \in (n + 1)..Len(run_results') :
                   run_results'[k][1] \in DOMAIN trial_results
            /\ n < Len(run_results) => Len(run_results') = max_results_to_keep

\* C13: the bound in every state, the trailing entries after every call
C13_BoundedHistory == [](C13_Bounded) /\ [][C13_Trailing]_vars

\* C14: every target always has all five outcome counters, and a
\* start_fuzzing_session call leaves every counter of every target zero, the
\* history empty and the trial counter zero, and changes neither the scratch
\* directory nor the files in it.
C14_AllKeys ==
    /\ DOMAIN stats = Configured
    /\ \A p \in DOMAIN stats : DOMAIN stats[p] = Outcomes

C14_StartResets ==
    start_fuzzing_session =>
        /\ \A p \in Configured : \A o \in Outcomes : stats'[p][o] = 0
        /\ run_results' = <<>>
        /\ current_trial' = 0
        /\ files' = files
        /\ temp_dir_exists' = temp_dir_exists

\* C14: the keys in every state, the reset in every start_fuzzing_session step
C14_Reset == [](C14_AllKeys) /\ [][C14_StartResets]_vars

\* a session was started after results had been counted and archived and
\* snapshots taken: the counters are zero again and the snapshots still there
C14_Witness ==
    /\ start_time
    /\ current_trial = 0
    /\ run_results = <<>>
    /\ archive # <<>>
    /\ \A p \in Configured : Total(stats[p]) = 0
    /\ \E f \in files : f.dir = "temp_dir"

\* a step of run in which a snapshot name was drawn and no file appeared:
\* shutil.copy2 raised (line 93)
CopyFailed == uuids' # uuids /\ files' = files

\* C15: a failed snapshot copy ends the run call with the error: no program
\* of the trial has run or runs afterwards, no RunResult is produced, and the
\* counters, the history and the trial counter are as before the call; a
\* later trial can run and be recorded (C15_Witness).
C15_NothingRan ==
    pc = "raised" => (executions = <<>> /\ trial_results = EmptyDict)

C15_CopyFailureStep ==
    CopyFailed =>
        /\ pc' = "raised"
        /\ executions' = <<>>
        /\ trial_results' = EmptyDict
        /\ stats' = stats
        /\ run_results' = run_results
        /\ current_trial' = current_trial

\* C15: nothing ran in a raised call, and every failed copy raises
C15_CopyFailureIsHardError == [](C15_NothingRan) /\ [][C15_CopyFailureStep]_vars

\* the first trial ended with a failed copy, the second ran and was recorded
C15_Witness ==
    /\ pc = "idle"
    /\ trials = 2
    /\ current_trial = 1
    /\ Len(run_results) = Cardinality(Configured)
    /\ \A p \in Configured : Total(stats[p]) = 1
    /\ uuids > Cardinality({f \in files : f.dir = "temp_dir"})

(***************************************************************************)
(* _normalize_output on its own: applied to a text, then to its own result *)
(* (as when an already normalized text is compared again).                 *)
(***************************************************************************)
\* the longest text enumerated exhaustively
MaxTextLen == 4

\* digits, the decimal point, a sign, the field delimiter, whitespace, the
\* line break and a character no number contains
Alphabet == {"5", "0", ".", "-", "|", " ", "\n", "x"}

\* longer outputs: fields with more fractional digits than Precision (rounded
\* down, up with a carry, to minus zero), a plus sign, several lines
LongOutputs ==
    Outputs \cup
    { <<"0", ".", "0", "0", "0", "0", "0", "0", "0", "0", "0", "0", "5">>,
      <<"2", ".", "9", "9", "9", "9", "9", "9", "9", "9", "9", "9", "5", "1">>,
      <<"-", ".", "0", "0", "0", "0", "0", "0", "0", "0", "0", "0", "1">>,
      <<"+", "5", ".", "0", " ", "|", "+", "5">>,
      <<" ", "1", ".", "5", " ", "|", "x", "\n", " ", "\n", "\t", "7", "|", "|">> }

NormTexts == UNION {[1..n -> Alphabet] : n \in 0..MaxTextLen} \cup LongOutputs

NormInit ==
    /\ Constructed
    /\ output \in NormTexts
    /\ normalized = NoneText

\* normalized = self._normalize_output(output)
Normalize ==
    /\ normalized = NoneText
    /\ normalized' = _normalize_output(output)
    /\ UNCHANGED <<output, runner_vars, session_vars, trial_vars, pc, trials>>

\* the result is normalized again
Renormalize ==
    /\ normalized # NoneText
    /\ output' = normalized
    /\ normalized' = _normalize_output(normalized)
    /\ UNCHANGED <<runner_vars, session_vars, trial_vars, pc, trials>>

NormNext ==
    \/ Normalize
    \/ Renormalize

NormSpec == NormInit /\ [][NormNext]_vars

\* C16: normalizing a text that _normalize_output returned gives the same
\* text: _normalize_output(_normalize_output(x)) = _normalize_output(x).
C16_Idempotent ==
    normalized # NoneText =>
        /\ normalized = _normalize_output(output)
        /\ _normalize_output(normalized) = normalized

\* normalization changed a text with a blank line, padded fields and a
\* decimal field, and the result was normalized again
C16_Witness ==
    /\ normalized # NoneText
    /\ output = normalized
    /\ Count(normalized, "|") = 3
    /\ Count(normalized, "\n") = 1
    /\ Count(normalized, ".") = 1
    /\ Count(normalized, " ") = 0
    /\ Len(normalized) = 18

(***************************************************************************)
(* Properties of whole sessions, checked under Spec.                       *)
(***************************************************************************)
\* a step of run: its first (line 202) or a later one
RunStep ==
    \/ trials' = trials + 1
    \/ pc \in {"save_targets", "save_pristine", "run_reference", "run_targets"}

\* the targets a step counted a result for
CountedTargets == {p \in Configured : stats'[p] # stats[p]}

\* C17: only record_results and start_fuzzing_session change a counter;
\* except in start_fuzzing_session no counter decreases; record_results
\* raises, for each RunResult it appends to the history, the one counter of
\* its target and outcome by one and no other; a step of run changes no
\* counter, not the history and not the trial counter.
C17_Step ==
    /\ stats' # stats => (RecordStep \/ start_fuzzing_session)
    /\ ~start_fuzzing_session =>
           \A p \in Configured : \A o \in Outcomes : stats'[p][o] >= stats[p][o]
    /\ RecordStep =>
           /\ \A p \in CountedTargets :
                  /\ p \in DOMAIN trial_results
                  /\ stats'[p] = [stats[p] EXCEPT ![trial_results[p].outcome] = @ + 1]
           /\ Len(run_results') = Len(run_results) + Cardinality(CountedTargets)
           /\ \A k \in (Len(run_results) + 1)..Len(run_results') :
                  /\ run_results'[k][1] \in CountedTargets
                  /\ run_results'[k][2].outcome
                         = trial_results[run_results'[k][1]].outcome
    /\ RunStep =>
           /\ stats' = stats
           /\ run_results' = run_results
           /\ current_trial' = current_trial

\* C17, of every step of a session
C17_CountersOnlyGrow == [][C17_Step]_vars

\* two trials were recorded for a target, with different outcomes
C17_Witness ==
    /\ current_trial = 2
    /\ stats[TargetA]["PASS"] = 1
    /\ stats[TargetA]["LOGIC_BUG"] = 1
    /\ Len(run_results) = 2 * Cardinality(Configured)

\* the snapshots a RunResult refers to
Snapshots(run_result) ==
    {run_result.db_path, run_result.saved_db_path} \ {NonePath}

\* C18: a file disappears only in the step of cleanup, which removes the
\* scratch directory; every snapshot a RunResult of the dict run returned
\* refers to exists as long as the dict is held, so it exists when
\* record_results hands the result to the archiver.
C18_Referenced ==
    \A p \in DOMAIN trial_results :
        /\ Snapshots(trial_results[p]) \subseteq files
        /\ \A f \in Snapshots(trial_results[p]) : f.dir = "temp_dir"

C18_OnlyCleanupDeletes ==
    /\ (files \ files') # {} => (cleanup /\ ~temp_dir_exists')
    /\ (RunStep \/ RecordStep \/ start_fuzzing_session \/ finish_fuzzing_session)
           => files \subseteq files'

\* C18: referenced snapshots exist in every state, only cleanup deletes
C18_SnapshotLifecycle == [](C18_Referenced) /\ [][C18_OnlyCleanupDeletes]_vars

\* the second trial returned a result to archive while the snapshots of the
\* first, recorded, trial are still in the scratch directory
C18_Witness ==
    /\ pc = "returned"
    /\ run_results # <<>>
    /\ \A k \in DOMAIN run_results :
           /\ Snapshots(run_results[k][2]) # {}
           /\ Snapshots(run_results[k][2]) \subseteq files
    /\ \E p \in DOMAIN trial_results :
           /\ trial_results[p].outcome \in ArchivedOutcomes
           /\ Cardinality(Snapshots(trial_results[p])) = 2
           /\ \A k \in DOMAIN run_results :
                  Snapshots(run_results[k][2]) \cap Snapshots(trial_results[p]) = {}

\* C19: the trial counter is the number of record_results calls since the
\* last reset and, for every configured target, the sum of the target's
\* counters, each call having been given the RunResult of every target.
C19_TrialCounterIsSum ==
    \A p \in Configured :
        /\ current_trial = passed[p]
        /\ current_trial = Total(stats[p])

(***************************************************************************)
(* A runner constructed with total_trials = 0.                             *)
(***************************************************************************)
ZeroInit ==
    /\ ConstructedFor(0)
    /\ output = <<>>
    /\ normalized = NoneText

ZeroSpec == ZeroInit /\ [][Next]_vars

\* C20: neither start_fuzzing_session nor record_results ends with the
\* ZeroDivisionError of the progress display, whatever total_trials, the
\* trial counter and the counters are.
C20_DisplayNeverDivides ==
    /\ pc # "start_raised"
    /\ ~(pc = "record_raised" /\ archive_failures = {})
    /\ live_display => ~DisplayRaises(start_time, total_trials)

====
